---- MODULE Spec2Model ----
(***************************************************************************)
(* Model of train_neural_network.py: the label codec (ENC_LIST, ENC_DICT,  *)
(* onehot2str, str2onehot), the multi-bucket decoder                       *)
(* (prob2str_multibucket), the confidence annotator                        *)
(* (calculatePredictionConfidence), the probability recorder               *)
(* (recordClassProbabilites) and the metrics engine                        *)
(* (calculatePerformanceMetrics and the scikit-learn scores it calls).     *)
(*                                                                         *)
(* Conventions.  A probability or a one-hot entry is an integer number of  *)
(* hundredths (0.20 is 20, 1. is 100).  A row of a matrix is a function    *)
(* over the column indices 0..4, so that a column index is a ClassIndex;   *)
(* a matrix is a sequence of rows.  A score is a fraction <<num, den>>,    *)
(* compared by cross-multiplication; den = 0 is numpy's nan.  A call that  *)
(* raises is the record [ok |-> FALSE, error |-> name of the exception].   *)
(***************************************************************************)
EXTENDS Integers, Sequences, FiniteSets, TLC

VARIABLES pc, Y, onehot, pred, sens, Y_pred, Y_true,
          confidence_list, dict_list, buckets, report, log, err

vars == <<pc, Y, onehot, pred, sens, Y_pred, Y_true,
          confidence_list, dict_list, buckets, report, log, err>>

\* ------------------------------------------------------------------ bounds
\* Longest label sequence handed to the codec.
MaxLabels == 3
\* Most rows of a probability matrix.
MaxRows == 2
\* Longest predicted / actual sequence handed to the metrics engine.
MaxLen == 3

\* ------------------------------------------------------- module constants
PROB_THRESHOLD == 20

ENC_LIST ==
    << <<"others", 0>>, <<"description", 1>>, <<"skills", 2>>,
       <<"job_title", 3>>, <<"education", 4>> >>

\* ENC_DICT with the names of classes 1 and 2 exchanged.
ENC_DICT_swapped ==
    (0 :> "others" @@ 1 :> "skills" @@ 2 :> "description" @@
     3 :> "job_title" @@ 4 :> "education")

ENC_DICT ==
    (0 :> "others" @@ 1 :> "description" @@ 2 :> "skills" @@
     3 :> "job_title" @@ 4 :> "education")

CONFIDENCE_THRESHOLD == 65

\* ------------------------------------------------------- python helpers
Range(s) == {s[i] : i \in DOMAIN s}

Ok(v) == [ok |-> TRUE, value |-> v]
Raise(e) == [ok |-> FALSE, error |-> e]

\* dict(pairs): the keys are the first components; a later pair overwrites
\* an earlier one with the same key.
dict(pairs) ==
    [k \in {pairs[i][1] : i \in DOMAIN pairs} |->
        LET last == CHOOSE i \in DOMAIN pairs :
                        /\ pairs[i][1] = k
                        /\ \A j \in DOMAIN pairs : pairs[j][1] = k => j <= i
        IN  pairs[last][2]]

\* [(i[1], i[0]) for i in ENC_LIST]
Swapped(pairs) == [i \in DOMAIN pairs |-> <<pairs[i][2], pairs[i][1]>>]

\* max(probs) of a non-empty row
max(row) == CHOOSE v \in Range(row) : \A w \in Range(row) : w <= v

\* An argmax that breaks ties by the last index.
argmax_last(row) ==
    CHOOSE i \in DOMAIN row :
        /\ row[i] = max(row)
        /\ \A j \in DOMAIN row : row[j] = max(row) => j <= i

\* np.argmax of one row: the first index that holds the maximum
argmax(row) ==
    CHOOSE i \in DOMAIN row :
        /\ row[i] = max(row)
        /\ \A j \in DOMAIN row : row[j] = max(row) => i <= j

\* ----------------------------------------------------------- label codec
onehot2str(m) ==
    LET enc_dict == dict(Swapped(ENC_LIST))
        idx_list == [i \in DOMAIN m |-> argmax(m[i])]
    IN  [i \in DOMAIN idx_list |-> enc_dict[idx_list[i]]]

\* np.zeros((1, len(ENC_LIST))) with vec[0, k] = 1.
OneHotRow(k) == [j \in 0..(Len(ENC_LIST) - 1) |-> IF j = k THEN 100 ELSE 0]

\* The loop raises KeyError at the first label enc_dict does not hold; after
\* the loop np.vstack raises ValueError on an empty list of rows.
str2onehot(labels) ==
    LET enc_dict == dict(ENC_LIST)
    IN  IF \E i \in DOMAIN labels : labels[i] \notin DOMAIN enc_dict
        THEN Raise("KeyError")
        ELSE IF labels = <<>>
        THEN Raise("ValueError")
        ELSE Ok([i \in DOMAIN labels |-> OneHotRow(enc_dict[labels[i]])])

\* -------------------------------------------------- probability recorder
\* prob_per_sentence[ENC_DICT[j]] = pred[i][j] for j = 0, 1, ...: a dict
\* filled in column order, so a repeated key keeps the last column's value.
ProbPerSentence(row) ==
    dict([n \in 1..Cardinality(DOMAIN row) |-> <<ENC_DICT[n - 1], row[n - 1]>>])

recordClassProbabilites(m) == [i \in DOMAIN m |-> ProbPerSentence(m[i])]

\* The annotator with >= in place of >.
calculatePredictionConfidence_ge(m) ==
    [i \in DOMAIN m |-> IF max(m[i]) >= CONFIDENCE_THRESHOLD THEN "YES" ELSE "NO"]

\* --------------------------------------------------- confidence annotator
calculatePredictionConfidence(m) ==
    [i \in DOMAIN m |-> IF max(m[i]) > CONFIDENCE_THRESHOLD THEN "YES" ELSE "NO"]

\* --------------------------------------------------- multi-bucket decoder
\* The inclusion test with > in place of >=.
InBucket_strict(pro) == pro > PROB_THRESHOLD

\* The inclusion test of one probability: pro >= PROB_THRESHOLD
InBucket(pro) == pro >= PROB_THRESHOLD

\* classes after the columns 0..k-1 of prob have been visited
RECURSIVE Classes(_, _, _)
Classes(enc_dict, prob, k) ==
    IF k = 0 THEN ""
    ELSE LET before == Classes(enc_dict, prob, k - 1)
         IN  IF InBucket(prob[k - 1])
             THEN before \o enc_dict[k - 1] \o ", "
             ELSE before

\* classes[:-2]
DropLast2(s) == SubSeq(s, 1, Len(s) - 2)

Min(a, b) == IF a <= b THEN a ELSE b

\* zip(probs, sens) stops at the shorter of the two
prob2str_multibucket(probs, sentences) ==
    LET enc_dict == dict(Swapped(ENC_LIST))
        n == Min(Len(probs), Len(sentences))
    IN  [cats |-> [i \in 1..n |->
                     DropLast2(Classes(enc_dict, probs[i],
                                       Cardinality(DOMAIN probs[i])))],
         final_sens |-> [i \in 1..n |-> sentences[i]]]

\* ------------------------------------------------------------- inputs
ClassNames == {ENC_LIST[i][1] : i \in DOMAIN ENC_LIST}

\* A label that is none of the configured class names.
LabelInputs == ClassNames \cup {"summary"}

SeqsUpTo(S, n) == UNION {[1..k -> S] : k \in 0..n}

Columns == 0..(Len(ENC_LIST) - 1)

ProbValues == {0, 20, 65}

RECURSIVE SumTo(_, _)
SumTo(row, k) == IF k < 0 THEN 0 ELSE row[k] + SumTo(row, k - 1)

\* A row given by its five entries, column 0 first.
Row(a, b, c, d, e) == (0 :> a @@ 1 :> b @@ 2 :> c @@ 3 :> d @@ 4 :> e)

\* The rows over ProbValues whose entries sum to at most 1, and the two
\* documented rows [0.7, 0.1, 0.1, 0.05, 0.05] and [0.3, 0.3, 0.2, 0.1, 0.1].
ProbRows ==
    {row \in [Columns -> ProbValues] : SumTo(row, Len(ENC_LIST) - 1) <= 100}
    \cup {Row(70, 10, 10, 5, 5), Row(30, 30, 20, 10, 10)}

None == <<>>

\* ----------------------------------------------- the codec on label lists
InitCodec ==
    /\ pc = "labels"
    /\ Y \in SeqsUpTo(LabelInputs, MaxLabels)
    /\ onehot = None /\ pred = <<>> /\ sens = <<>> /\ Y_pred = <<>>
    /\ Y_true = <<>> /\ confidence_list = <<>> /\ dict_list = <<>>
    /\ buckets = None /\ report = None /\ log = <<>> /\ err = ""

\* new_Y = str2onehot(Y)
Encode ==
    /\ pc = "labels"
    /\ LET r == str2onehot(Y)
       IN  IF r.ok
           THEN /\ onehot' = r.value /\ pc' = "encoded" /\ err' = err
           ELSE /\ onehot' = onehot /\ pc' = "failed" /\ err' = r.error
    /\ UNCHANGED <<Y, pred, sens, Y_pred, Y_true, confidence_list, dict_list,
                   buckets, report, log>>

\* onehot2str(new_Y)
DecodeEncoded ==
    /\ pc = "encoded"
    /\ Y_pred' = onehot2str(onehot)
    /\ pc' = "roundtrip"
    /\ UNCHANGED <<Y, onehot, pred, sens, Y_true, confidence_list, dict_list,
                   buckets, report, log, err>>

NextCodec == Encode \/ DecodeEncoded

SpecCodec == InitCodec /\ [][NextCodec]_vars

\* ------------------------------------ the decoders on a probability matrix
InitPred ==
    /\ pc = "predicted"
    /\ pred \in SeqsUpTo(ProbRows, MaxRows)
    /\ Y = <<>> /\ onehot = None /\ sens = <<>> /\ Y_pred = <<>>
    /\ Y_true = <<>> /\ confidence_list = <<>> /\ dict_list = <<>>
    /\ buckets = None /\ report = None /\ log = <<>> /\ err = ""

\* Y_pred = onehot2str(pred)
Decode ==
    /\ pc = "predicted"
    /\ Y_pred' = onehot2str(pred)
    /\ pc' = "decoded"
    /\ UNCHANGED <<Y, onehot, pred, sens, Y_true, confidence_list, dict_list,
                   buckets, report, log, err>>

\* confidence_list = calculatePredictionConfidence(pred)
Annotate ==
    /\ pc = "decoded"
    /\ confidence_list' = calculatePredictionConfidence(pred)
    /\ pc' = "annotated"
    /\ UNCHANGED <<Y, onehot, pred, sens, Y_pred, Y_true, dict_list,
                   buckets, report, log, err>>

\* dict_list = recordClassProbabilites(pred)
Record ==
    /\ pc = "annotated"
    /\ dict_list' = recordClassProbabilites(pred)
    /\ pc' = "recorded"
    /\ UNCHANGED <<Y, onehot, pred, sens, Y_pred, Y_true, confidence_list,
                   buckets, report, log, err>>

\* cats, final_sens = prob2str_multibucket(pred, sens), the sentences being
\* the ids 1..k of any k sentences
MultiBucket ==
    /\ pc = "recorded"
    /\ \E k \in 0..MaxRows :
         /\ sens' = [i \in 1..k |-> i]
         /\ buckets' = prob2str_multibucket(pred, sens')
    /\ pc' = "bucketed"
    /\ UNCHANGED <<Y, onehot, pred, Y_pred, Y_true, confidence_list, dict_list,
                   report, log, err>>

NextPred == Decode \/ Annotate \/ Record \/ MultiBucket

SpecPred == InitPred /\ [][NextPred]_vars

\* ------------------------------------------------- scikit-learn scores
\* A score num/den; the library reports 0 where the denominator is 0.
Div(num, den) == IF den = 0 THEN <<0, 1>> ELSE <<num, den>>

FAdd(a, b) == <<a[1] * b[2] + b[1] * a[2], a[2] * b[2]>>

\* k * a for an integer k
FScale(k, a) == <<k * a[1], a[2]>>

RECURSIVE FSum(_, _)
FSum(f, S) ==
    IF S = {} THEN <<0, 1>>
    ELSE LET c == CHOOSE x \in S : TRUE
         IN  FAdd(f[c], FSum(f, S \ {c}))

RECURSIVE NSum(_, _)
NSum(f, S) ==
    IF S = {} THEN 0
    ELSE LET c == CHOOSE x \in S : TRUE
         IN  f[c] + NSum(f, S \ {c})

\* Per-label counts over the positions of y_true / y_pred.
tp_sum(y_true, y_pred, c) ==
    Cardinality({i \in DOMAIN y_true : y_true[i] = c /\ y_pred[i] = c})
pred_sum(y_pred, c) == Cardinality({i \in DOMAIN y_pred : y_pred[i] = c})
true_sum(y_true, c) == Cardinality({i \in DOMAIN y_true : y_true[i] = c})

\* The labels an average is taken over when no labels= is passed: those
\* occurring in y_true or y_pred.
present_labels(y_true, y_pred) == Range(y_true) \cup Range(y_pred)

\* One label's precision, recall or f1.
class_score(kind, y_true, y_pred, c) ==
    LET tp == tp_sum(y_true, y_pred, c)
        ps == pred_sum(y_pred, c)
        ts == true_sum(y_true, c)
    IN  CASE kind = "precision" -> Div(tp, ps)
          [] kind = "recall"    -> Div(tp, ts)
          [] kind = "f1"        -> Div(2 * tp, ps + ts)

\* A micro score that averages the labels' scores instead of pooling counts.
micro_score_unpooled(kind, y_true, y_pred) ==
    LET L   == present_labels(y_true, y_pred)
        sum == FSum([c \in L |-> class_score(kind, y_true, y_pred, c)], L)
    IN  <<sum[1], sum[2] * Cardinality(L)>>

\* average='micro': the counts are pooled over the labels, then divided.
micro_score(kind, y_true, y_pred) ==
    LET L  == present_labels(y_true, y_pred)
        tp == NSum([c \in L |-> tp_sum(y_true, y_pred, c)], L)
        ps == NSum([c \in L |-> pred_sum(y_pred, c)], L)
        ts == NSum([c \in L |-> true_sum(y_true, c)], L)
    IN  CASE kind = "precision" -> Div(tp, ps)
          [] kind = "recall"    -> Div(tp, ts)
          [] kind = "f1"        -> Div(2 * tp, ps + ts)

\* The labels a macro average is the mean over.
macro_labels(y_true, y_pred) == present_labels(y_true, y_pred)

\* average='macro': the unweighted mean of the labels' scores.
macro_score(kind, y_true, y_pred) ==
    LET L   == macro_labels(y_true, y_pred)
        sum == FSum([c \in L |-> class_score(kind, y_true, y_pred, c)], L)
    IN  <<sum[1], sum[2] * Cardinality(L)>>

\* average='weighted': the mean weighted by each label's support; 0 when
\* there is no support at all.
weighted_score(kind, y_true, y_pred) ==
    LET L   == present_labels(y_true, y_pred)
        sum == FSum([c \in L |-> FScale(true_sum(y_true, c),
                                         class_score(kind, y_true, y_pred, c))], L)
        w   == NSum([c \in L |-> true_sum(y_true, c)], L)
    IN  IF w = 0 THEN <<0, 1>> ELSE <<sum[1], sum[2] * w>>

\* precision_score / recall_score / f1_score(average=None, labels=labels)
scores_per_label(kind, y_true, y_pred, labels) ==
    [i \in DOMAIN labels |-> class_score(kind, y_true, y_pred, labels[i])]

\* accuracy_score(y_true, y_pred, normalize=False): the number of matches
accuracy_count(y_true, y_pred) ==
    Cardinality({i \in DOMAIN y_true : y_true[i] = y_pred[i]})

\* accuracy_score(y_true, y_pred): the mean of the matches (nan of nothing)
accuracy_score(y_true, y_pred) == <<accuracy_count(y_true, y_pred), Len(y_true)>>

\* A confusion matrix with rows = predicted, columns = true.
confusion_matrix_transposed(y_true, y_pred, labels) ==
    [i \in 0..(Len(labels) - 1) |-> [j \in 0..(Len(labels) - 1) |->
        Cardinality({k \in DOMAIN y_true :
                        y_pred[k] = labels[i + 1] /\ y_true[k] = labels[j + 1]})]]

\* confusion_matrix(y_true, y_pred, labels=labels), rows and columns
\* numbered from 0
confusion_matrix(y_true, y_pred, labels) ==
    [i \in 0..(Len(labels) - 1) |-> [j \in 0..(Len(labels) - 1) |->
        Cardinality({k \in DOMAIN y_true :
                        y_true[k] = labels[i + 1] /\ y_pred[k] = labels[j + 1]})]]

\* --------------------------------------------------------- metrics engine
classlist == <<"description", "job_title", "education", "others", "skills">>

precision_recall_f1(Y_p, Y_test, labels) ==
    LET precision == scores_per_label("precision", Y_test, Y_p, labels)
        recall    == scores_per_label("recall", Y_test, Y_p, labels)
        f1        == scores_per_label("f1", Y_test, Y_p, labels)
    IN  [c \in Range(labels) |->
            LET i == CHOOSE n \in DOMAIN labels :
                        labels[n] = c /\ \A m \in DOMAIN labels : labels[m] = c => m <= n
            IN  [precision |-> precision[i], recall |-> recall[i], f1 |-> f1[i]]]

micro_macro_weighted(Y_p, Y_t) ==
    [micro_precision    |-> micro_score("precision", Y_t, Y_p),
     macro_precision    |-> macro_score("precision", Y_t, Y_p),
     weighted_precision |-> weighted_score("precision", Y_t, Y_p),
     micro_recall       |-> micro_score("recall", Y_t, Y_p),
     macro_recall       |-> macro_score("recall", Y_t, Y_p),
     weighted_recall    |-> weighted_score("recall", Y_t, Y_p),
     micro_f1           |-> micro_score("f1", Y_t, Y_p),
     macro_f1           |-> macro_score("f1", Y_t, Y_p),
     weighted_f1        |-> weighted_score("f1", Y_t, Y_p)]

\* The values calculatePerformanceMetrics computes before it logs them.
Metrics(Y_p, Y_t) ==
    [num_incorrect |-> Len(Y_t) - accuracy_count(Y_t, Y_p),
     accuracy      |-> accuracy_score(Y_t, Y_p),
     metrics       |-> precision_recall_f1(Y_p, Y_t, classlist),
     micro_macro_weighted_scores |-> micro_macro_weighted(Y_p, Y_t),
     cf_matrix     |-> confusion_matrix(Y_t, Y_p, classlist)]

\* The three lines logged for the i-th class of classlist
ClassLines(r, i) ==
    << <<"Precision " \o classlist[i] \o ": ", r.metrics[classlist[i]].precision>>,
       <<"Recall " \o classlist[i] \o ": ", r.metrics[classlist[i]].recall>>,
       <<"F1 " \o classlist[i] \o ": ", r.metrics[classlist[i]].f1>> >>

RECURSIVE AllClassLines(_, _)
AllClassLines(r, i) ==
    IF i > Len(classlist) THEN <<>>
    ELSE ClassLines(r, i) \o AllClassLines(r, i + 1)

\* The lines logger.info receives, each a text and the value str() renders.
LogLines(r, dataset_type) ==
    << <<"Results for " \o dataset_type \o " set...", None>>,
       <<"Number of cases that were incorrect: ", r.num_incorrect>>,
       <<"Accuracy: ", r.accuracy>> >>
    \o AllClassLines(r, 1)
    \o << <<"Micro precision: ", r.micro_macro_weighted_scores.micro_precision>>,
          <<"Micro recall: ", r.micro_macro_weighted_scores.micro_recall>>,
          <<"Micro f1: ", r.micro_macro_weighted_scores.micro_f1>>,
          <<"Macro precision: ", r.micro_macro_weighted_scores.macro_precision>>,
          <<"Macro recall: ", r.micro_macro_weighted_scores.macro_recall>>,
          <<"Macro f1: ", r.micro_macro_weighted_scores.macro_f1>>,
          <<"Weighted precision: ", r.micro_macro_weighted_scores.weighted_precision>>,
          <<"Weighted recall: ", r.micro_macro_weighted_scores.weighted_recall>>,
          <<"Weighted f1: ", r.micro_macro_weighted_scores.weighted_f1>>,
          <<"Confusion Matrix below ", classlist>>,
          <<"", r.cf_matrix>> >>

\* --------------------------------------- the metrics engine on two sequences
InitMetrics ==
    /\ pc = "compiled"
    /\ Y_pred \in SeqsUpTo(ClassNames, MaxLen)
    /\ Y_true \in SeqsUpTo(ClassNames, MaxLen)
    /\ Y = <<>> /\ onehot = None /\ pred = <<>> /\ sens = <<>>
    /\ confidence_list = <<>> /\ dict_list = <<>>
    /\ buckets = None /\ report = None /\ log = <<>> /\ err = ""

\* An assert that lets a longer prediction through.
LengthsAgree_atleast(Y_p, Y_t) == Len(Y_p) >= Len(Y_t)

\* assert len(Y_pred) == len(Y_true)
LengthsAgree(Y_p, Y_t) == Len(Y_p) = Len(Y_t)

\* calculatePerformanceMetrics(Y_pred, Y_true, "testing").  The assert stops
\* the call before anything is computed.  On two empty sequences what the
\* scikit-learn calls do is set by the installed release: some reject the
\* labels, others return the degenerate scores.
calculatePerformanceMetrics ==
    /\ pc = "compiled"
    /\ \/ /\ ~LengthsAgree(Y_pred, Y_true)
          /\ err' = "AssertionError" /\ pc' = "failed"
          /\ UNCHANGED <<report, log>>
       \/ /\ LengthsAgree(Y_pred, Y_true)
          /\ Len(Y_true) = 0
          /\ err' = "ValueError" /\ pc' = "failed"
          /\ UNCHANGED <<report, log>>
       \/ /\ LengthsAgree(Y_pred, Y_true)
          /\ report' = Metrics(Y_pred, Y_true)
          /\ log' = LogLines(report', "testing")
          /\ pc' = "reported"
          /\ err' = err
    /\ UNCHANGED <<Y, onehot, pred, sens, Y_pred, Y_true, confidence_list,
                   dict_list, buckets>>

NextMetrics == calculatePerformanceMetrics

SpecMetrics == InitMetrics /\ [][NextMetrics]_vars

\* ===================================================================
\* Properties of the label codec (SpecCodec)
\* ===================================================================
AllKnown == \A i \in DOMAIN Y : Y[i] \in ClassNames

\* C1: for every finite sequence S of labels of the fixed set (a single
\* label [L] included), onehot2str(str2onehot(S)) equals S element by
\* element: once the encode step has run on such a sequence, the round trip
\* completes with Y_pred = Y.
C1_RoundTrip ==
    (pc \in {"failed", "roundtrip"} /\ AllKnown)
        => (pc = "roundtrip" /\ Y_pred = Y)

\* The round trip on the sequences str2onehot accepts: whenever the decode
\* of an encoding is reached, it returns the labels it started from.
RoundTripWhenEncoded == pc = "roundtrip" => Y_pred = Y

RoundTripReached == pc = "roundtrip" /\ Len(Y) = 3 /\ Y[1] # Y[2] /\ Y[2] # Y[3]

\* C5: str2onehot fails with the unknown-label error and returns no matrix
\* if some input label is not a configured class name; if every label is
\* configured it succeeds with one row of 5 columns per input label.
C5_EncodeKnownOrFail ==
    pc # "labels" =>
        IF AllKnown
        THEN /\ pc \in {"encoded", "roundtrip"}
             /\ Len(onehot) = Len(Y)
             /\ \A i \in DOMAIN onehot : DOMAIN onehot[i] = 0..4
        ELSE /\ pc = "failed" /\ err = "KeyError" /\ onehot = None

\* The same on non-empty inputs.
EncodeKnownOrFailNonEmpty == Y # <<>> => C5_EncodeKnownOrFail

\* ===================================================================
\* Properties of the decoders of a probability matrix (SpecPred)
\* ===================================================================
\* The class names in ascending ClassIndex order.
ClassOrder == <<"others", "description", "skills", "job_title", "education">>

\* The names of the classes of row at or above the threshold t, from column
\* k on, in ascending column order, separated by ", ".
RECURSIVE Joined(_, _, _)
Joined(row, t, k) ==
    IF k > 4 THEN ""
    ELSE LET rest == Joined(row, t, k + 1)
         IN  IF row[k] >= t
             THEN IF rest = "" THEN ClassOrder[k + 1]
                  ELSE ClassOrder[k + 1] \o ", " \o rest
             ELSE rest

C3_ArgmaxDecode ==
    pc # "predicted" =>
        /\ Len(Y_pred) = Len(pred)
        /\ \A i \in DOMAIN pred :
             \E k \in 0..4 :
                /\ \A j \in 0..4 : pred[i][j] <= pred[i][k]
                /\ \A j \in 0..4 : j < k => pred[i][j] < pred[i][k]
                /\ Y_pred[i] = ClassOrder[k + 1]

\* Two rows decoded, the first with its maximum tied in columns 2 and 4.
C3_Witness ==
    /\ pc = "decoded"
    /\ Len(pred) = 2
    /\ pred[1] = Row(0, 0, 20, 0, 20)
    /\ Y_pred[1] = "skills"
    /\ pred[2] = Row(0, 20, 0, 65, 0)
    /\ Y_pred[2] = "job_title"

\* C7: calculatePredictionConfidence gives one flag per row, "YES" exactly
\* when the row's maximum is strictly greater than 0.65 (so "NO" at exactly
\* 0.65); [0.7, 0.1, 0.1, 0.05, 0.05] is "YES", [0.3, 0.3, 0.2, 0.1, 0.1] "NO".
C7_Confidence ==
    pc \in {"annotated", "recorded", "bucketed"} =>
        /\ Len(confidence_list) = Len(pred)
        /\ \A i \in DOMAIN pred :
             /\ confidence_list[i] \in {"YES", "NO"}
             /\ confidence_list[i] = "YES" <=> \E j \in 0..4 : pred[i][j] > 65
             /\ pred[i] = Row(70, 10, 10, 5, 5) => confidence_list[i] = "YES"
             /\ pred[i] = Row(30, 30, 20, 10, 10) => confidence_list[i] = "NO"

\* A row whose maximum is exactly 0.65 flagged "NO" beside the documented
\* high-confidence row.
C7_Witness ==
    /\ pc = "annotated"
    /\ pred = <<Row(0, 65, 20, 0, 0), Row(70, 10, 10, 5, 5)>>
    /\ confidence_list = <<"NO", "YES">>

\* The class names a decoded string lists: its pieces between ", ".
RECURSIVE Tokens(_)
Tokens(str) ==
    IF str = "" THEN {}
    ELSE IF \E i \in 1..(Len(str) - 1) : SubSeq(str, i, i + 1) = ", "
    THEN LET cut == CHOOSE i \in 1..(Len(str) - 1) :
                        /\ SubSeq(str, i, i + 1) = ", "
                        /\ \A j \in 1..(i - 1) : SubSeq(str, j, j + 1) # ", "
         IN  {SubSeq(str, 1, cut - 1)} \cup Tokens(SubSeq(str, cut + 2, Len(str)))
    ELSE {str}

RECURSIVE Pairs(_, _, _)
Pairs(a, p, n) ==
    IF n = 0 THEN 0
    ELSE Pairs(a, p, n - 1) + (IF Y_true[n] = a /\ Y_pred[n] = p THEN 1 ELSE 0)

\* The number of positions 1..n at which predicted and actual agree.
RECURSIVE Matches(_)
Matches(n) ==
    IF n = 0 THEN 0
    ELSE Matches(n - 1) + (IF Y_true[n] = Y_pred[n] THEN 1 ELSE 0)

\* Two scores are the same number.
FracEq(a, b) == a[2] # 0 /\ b[2] # 0 /\ a[1] * b[2] = b[1] * a[2]

\* C4: when the predicted and actual sequences differ in length the call
\* fails with the length-mismatch error before any metric is computed or any
\* line is logged; when the lengths are equal it does not raise that error.
C4_LengthPrecondition ==
    pc # "compiled" =>
        /\ Len(Y_pred) # Len(Y_true) =>
             (pc = "failed" /\ err = "AssertionError" /\ report = None /\ log = <<>>)
        /\ Len(Y_pred) = Len(Y_true) => err # "AssertionError"

\* A call with 2 predicted and 3 actual labels has failed.
C4_Witness ==
    /\ pc = "failed" /\ err = "AssertionError"
    /\ Len(Y_pred) = 2 /\ Len(Y_true) = 3

\* The fixed ordering of the confusion matrix axes, numbered from 0.
AxisOrder ==
    (0 :> "description" @@ 1 :> "job_title" @@ 2 :> "education" @@
     3 :> "others" @@ 4 :> "skills")

\* C6: cell [i][j] of the confusion matrix is the number of positions whose
\* actual label is the i-th and predicted label the j-th class of
\* [description, job_title, education, others, skills]; when every actual
\* label is "skills" and every predicted label "others", accuracy is 0 and
\* the only non-zero cell is row 4, column 3, holding the number of examples.
C6_ConfusionMatrix ==
    pc = "reported" =>
        /\ \A i \in 0..4 : \A j \in 0..4 :
             report.cf_matrix[i][j] = Pairs(AxisOrder[i], AxisOrder[j], Len(Y_true))
        /\ ( /\ Len(Y_true) >= 1
             /\ \A k \in DOMAIN Y_true : Y_true[k] = "skills" /\ Y_pred[k] = "others" )
           => /\ FracEq(report.accuracy, <<0, 1>>)
              /\ report.cf_matrix[4][3] = Len(Y_true)
              /\ \A i \in 0..4 : \A j \in 0..4 :
                   <<i, j>> # <<4, 3>> => report.cf_matrix[i][j] = 0

\* Three examples, all actual "skills" and predicted "others", reported.
C6_Witness ==
    /\ pc = "reported"
    /\ Y_true = <<"skills", "skills", "skills">>
    /\ Y_pred = <<"others", "others", "others">>
    /\ report.cf_matrix[4][3] = 3

\* C8: on equal-length, non-empty sequences micro precision, micro recall
\* and micro F1 are equal to each other and to the accuracy, which is the
\* number of matching positions over the number of positions; and the
\* incorrect count is the total minus the matches.
C8_MicroIsAccuracy ==
    (pc = "reported" /\ Len(Y_true) >= 1) =>
        LET m == report.micro_macro_weighted_scores
            acc == <<Matches(Len(Y_true)), Len(Y_true)>>
        IN  /\ FracEq(report.accuracy, acc)
            /\ FracEq(m.micro_precision, acc)
            /\ FracEq(m.micro_recall, acc)
            /\ FracEq(m.micro_f1, acc)
            /\ FracEq(m.micro_precision, m.micro_recall)
            /\ FracEq(m.micro_recall, m.micro_f1)
            /\ report.num_incorrect = Len(Y_true) - Matches(Len(Y_true))

\* Three examples over three classes, one of them predicted correctly.
C8_Witness ==
    /\ pc = "reported"
    /\ Y_true = <<"skills", "others", "education">>
    /\ Y_pred = <<"skills", "skills", "others">>
    /\ FracEq(report.micro_macro_weighted_scores.micro_f1, <<1, 3>>)
    /\ report.num_incorrect = 2

\* The arithmetic mean of the 5 per-class values precision_recall_f1 reports.
MeanOfFive(kind) ==
    LET v == [i \in 1..5 |-> report.metrics[AxisOrder[i - 1]][kind]]
        sum == FAdd(v[1], FAdd(v[2], FAdd(v[3], FAdd(v[4], v[5]))))
    IN  <<sum[1], sum[2] * 5>>

\* C9: on equal-length, non-empty sequences (also when some of the 5
\* classes occur in neither sequence) macro precision, recall and F1 each
\* equal the arithmetic mean of the 5 per-class values reported for
\* [description, job_title, education, others, skills], a class with no
\* predicted or no actual instance contributing 0.
C9_MacroIsMeanOfFive ==
    (pc = "reported" /\ Len(Y_true) >= 1) =>
        LET m == report.micro_macro_weighted_scores
        IN  /\ FracEq(m.macro_precision, MeanOfFive("precision"))
            /\ FracEq(m.macro_recall, MeanOfFive("recall"))
            /\ FracEq(m.macro_f1, MeanOfFive("f1"))

\* The same where each of the 5 classes occurs in one of the sequences.
MacroIsMeanOfFiveAllPresent ==
    Range(Y_true) \cup Range(Y_pred) = ClassNames => C9_MacroIsMeanOfFive

====
